---- MODULE Spec2Model ----
(***************************************************************************)
(* Telegram Docker Monitor bot (src/main.py): the polling log stream       *)
(* workers (_start_stream_for_chat), the chat registry active_streams,     *)
(* the handlers that start and stop streams (cmd_stream, cmd_stop,         *)
(* callback_query_handler) and the chunking function split_long_message.   *)
(*                                                                         *)
(* Time is counted in whole seconds.  A text is a sequence of characters;  *)
(* a character is a number: NL is "\n", CR is "\r", any other number is an *)
(* ordinary character.  A log line of the container is the one-character   *)
(* text <<id>>, id being the line's position in the container's log.       *)
(***************************************************************************)
EXTENDS Integers, Sequences, FiniteSets, TLC

VARIABLES
    now,             \* time.time(), in seconds
    log,             \* the container's log: the second each line was written in
    allowed,         \* ALLOWED_USERS
    active_streams,  \* chat id -> task id, NoTask when the chat has no entry
    tasks,           \* task id -> the asyncio task running _start_stream_for_chat
    handler,         \* the update handler the application is running, if any
    text,            \* split_long_message: argument text
    max_chunk,       \* split_long_message: argument max_chunk
    chunks,          \* split_long_message: the returned list
    split_pc         \* split_long_message: "call" before, "done" after the call

vars == <<now, log, allowed, active_streams, tasks, handler,
          text, max_chunk, chunks, split_pc>>

streamVars == <<now, log, allowed, active_streams, tasks, handler>>
splitVars == <<text, max_chunk, chunks, split_pc>>

----------------------------------------------------------------------------
(* Configuration.  LOG_POLL_INTERVAL and STREAM_RATE_LIMIT have the values *)
(* of the source.  MAX_LINES_PER_MSG (10 in the source, an environment     *)
(* setting) and MAX_MESSAGE_CHUNK (3900 in the source) are scaled down so  *)
(* that a poll of a few one-character lines reaches them.                  *)

LOG_POLL_INTERVAL == 1
STREAM_RATE_LIMIT == 2
MAX_LINES_PER_MSG == 2
MAX_MESSAGE_CHUNK == 2

(* Bounds of the model.  Spec is the whole bot, with two chats; SessionSpec *)
(* is one chat's stream with a longer log and more time.                   *)
MaxTasks == 2           \* stream tasks created in one run
MaxTime == 3            \* Spec: the clock stops here
MaxLogLines == 1        \* Spec: lines the container writes
SessionMaxTime == 4     \* SessionSpec: the clock stops here
SessionLogLines == 3    \* SessionSpec: lines the container writes
MaxTextLen == 5     \* split_long_message: longest argument text
MaxChunkArg == 3    \* split_long_message: largest max_chunk argument

NL == 0
CR == -1

----------------------------------------------------------------------------
(* Text helpers. *)

\* str.splitlines(): breaks at "\n", "\r" and "\r\n"; no final empty line.
RECURSIVE SplitLinesFrom(_, _, _, _)
SplitLinesFrom(s, i, cur, acc) ==
    IF i > Len(s) THEN (IF cur = <<>> THEN acc ELSE Append(acc, cur))
    ELSE IF s[i] = NL THEN SplitLinesFrom(s, i + 1, <<>>, Append(acc, cur))
    ELSE IF s[i] = CR THEN
        IF i < Len(s) /\ s[i + 1] = NL
        THEN SplitLinesFrom(s, i + 2, <<>>, Append(acc, cur))
        ELSE SplitLinesFrom(s, i + 1, <<>>, Append(acc, cur))
    ELSE SplitLinesFrom(s, i + 1, Append(cur, s[i]), acc)

splitlines(s) == SplitLinesFrom(s, 1, <<>>, <<>>)

\* "\n".join(lines)
RECURSIVE join(_)
join(lines) ==
    IF lines = <<>> THEN <<>>
    ELSE IF Len(lines) = 1 THEN lines[1]
    ELSE lines[1] \o <<NL>> \o join(Tail(lines))

\* The loop of split_long_message over lines[i..], with its locals.
RECURSIVE SplitLoop(_, _, _, _, _, _)
SplitLoop(lines, i, mc, out, cur, cur_len) ==
    IF i > Len(lines)
    THEN (IF cur # <<>> THEN Append(out, join(cur)) ELSE out)
    ELSE LET ln == lines[i]
             lnlen == Len(ln) + 1
         IN  IF cur_len + lnlen > mc /\ cur # <<>>
             THEN SplitLoop(lines, i + 1, mc, Append(out, join(cur)), <<ln>>, lnlen)
             ELSE SplitLoop(lines, i + 1, mc, out, Append(cur, ln), cur_len + lnlen)

split_long_message(t, mc) ==
    IF Len(t) <= mc THEN <<t>>
    ELSE SplitLoop(splitlines(t), 1, mc, <<>>, <<>>, 0)

----------------------------------------------------------------------------
(* split_long_message as a program of its own: any text, any max_chunk. *)

Chars == {NL, CR, 1, 2}

RECURSIVE TextsOfLen(_)
TextsOfLen(n) ==
    IF n = 0 THEN {<<>>}
    ELSE {Append(t, c) : t \in TextsOfLen(n - 1), c \in Chars}

Texts == UNION {TextsOfLen(n) : n \in 0..MaxTextLen}

SplitCall ==
    /\ split_pc = "call"
    /\ chunks' = split_long_message(text, max_chunk)
    /\ split_pc' = "done"
    /\ UNCHANGED <<text, max_chunk>>
    /\ UNCHANGED streamVars

----------------------------------------------------------------------------
(* Streams: the container's log, the sink, the tasks and the registry. *)

Users == {1, 2}
Chats == {1, 2}
Idents == {"web", "zz"}       \* "web" names a container, "zz" matches none
NoArg == ""                   \* a command without arguments
Containers == {"web"}
TaskIds == 1..MaxTasks
NoTask == 0

StartTime == STREAM_RATE_LIMIT   \* time.time() is far beyond STREAM_RATE_LIMIT

\* An empty ALLOWED_USERS read as "no restriction".
authorizedWhenEmpty(user_id) ==
    IF allowed = {} THEN TRUE ELSE user_id \in allowed

authorized(user_id) ==
    IF allowed = {} THEN FALSE ELSE user_id \in allowed

\* A lookup that resolves every identifier.
find_containerAny(identifier) == TRUE

\* find_container: TRUE when the identifier resolves, FALSE for NotFound.
find_container(identifier) == identifier \in Containers

\* container.logs(since=...): the lines written in second `since` or later,
\* each ended by "\n".
RECURSIVE LogsFrom(_, _)
LogsFrom(i, since) ==
    IF i > Len(log) THEN <<>>
    ELSE (IF log[i] >= since THEN <<i, NL>> ELSE <<>>) \o LogsFrom(i + 1, since)

logs(since) == LogsFrom(1, since)

IsSpace(c) == c \in {NL, CR}

\* str.strip()
RECURSIVE lstrip(_)
lstrip(s) == IF s # <<>> /\ IsSpace(Head(s)) THEN lstrip(Tail(s)) ELSE s
RECURSIVE rstrip(_)
rstrip(s) ==
    IF s # <<>> /\ IsSpace(s[Len(s)]) THEN rstrip(SubSeq(s, 1, Len(s) - 1)) ELSE s
strip(s) == rstrip(lstrip(s))

\* Lines 277-282: the lines a poll result adds to the buffer.
NewLines(raw) ==
    IF raw # <<>>
    THEN LET decoded == strip(raw)
         IN  IF decoded # <<>> THEN splitlines(decoded) ELSE <<>>
    ELSE <<>>

\* The flush condition without its test of the buffer.
ShouldFlushAnyBuffer(buffer, last_sent, t) ==
    Len(buffer) >= MAX_LINES_PER_MSG \/ (t - last_sent) >= STREAM_RATE_LIMIT

\* Line 284: the flush condition.
\* A flush check that ignores the time since the last flush.
ShouldFlushWhenFull(buffer, last_sent, t) ==
    buffer # <<>> /\ Len(buffer) >= MAX_LINES_PER_MSG

ShouldFlush(buffer, last_sent, t) ==
    buffer # <<>> /\ (Len(buffer) >= MAX_LINES_PER_MSG \/ (t - last_sent) >= STREAM_RATE_LIMIT)

NoTaskRec ==
    [chat |-> 0, user |-> 0, pc |-> "none", cancel |-> FALSE, last_ts |-> 0, buffer |-> <<>>,
     last_sent |-> 0, raw |-> <<>>, pending |-> <<>>, wake |-> 0,
     out |-> <<>>, fetched |-> <<>>, flushes |-> <<>>, sendFailed |-> FALSE,
     stopAt |-> ""]

\* asyncio.create_task(_start_stream_for_chat(chat_id, ...)): not yet run.
NewTaskRec(c) == [NoTaskRec EXCEPT !.chat = c, !.pc = "created"]

IdleHandler == [pc |-> "idle", kind |-> "none", user |-> 0, chat |-> 0, ident |-> "", msg |-> ""]

done(t) == tasks[t].pc = "done"
Used == {t \in TaskIds : tasks[t].pc # "none"}
NextTask == Cardinality(Used) + 1
CanCreate == Cardinality(Used) < MaxTasks   \* a task id is left

\* The worker is in its poll/flush loop (lines 268-292).
LoopPcs == {"read", "read_done", "flush_send", "sleep"}
InLoop(t) == tasks[t].pc \in LoopPcs /\ ~tasks[t].cancel

Msg(kind, txt) == [kind |-> kind, text |-> txt]

----------------------------------------------------------------------------
(* The stream worker, _start_stream_for_chat (lines 259-299), one action   *)
(* per resumption of the coroutine.  pc names the await it is suspended    *)
(* at: "created" (not yet run), "start_send" (262), "read" (271, the       *)
(* thread has not read yet), "read_done" (271, the thread has returned),   *)
(* "flush_send" (288), "sleep" (292), "err_send" (273), "stop_send" (295), *)
(* "term_send" (299), "done".  A task whose cancel() was called takes no   *)
(* step but Cancelled: its next resumption raises CancelledError.          *)
(* The fields out (the messages the sink accepted), fetched (the lines put *)
(* into the buffer), flushes (for each flush, last_sent and the time it    *)
(* began), sendFailed (a chunk's send raised) and stopAt (the await a      *)
(* CancelledError was raised at) record the task's history.                *)

Runs(t) == tasks[t].pc \notin {"none", "done"} /\ ~tasks[t].cancel

OnlyTask(t) == UNCHANGED <<now, log, allowed, active_streams, handler>> /\ UNCHANGED splitVars

\* The event loop runs the new task up to its first await (line 262).
TaskStart(t) ==
    /\ Runs(t) /\ tasks[t].pc = "created"
    /\ tasks' = [tasks EXCEPT ![t].pc = "start_send"]
    /\ OnlyTask(t)

\* Line 262 returns; lines 264-271 up to the first read.
StartSendOk(t) ==
    /\ Runs(t) /\ tasks[t].pc = "start_send"
    /\ tasks' = [tasks EXCEPT ![t].pc = "read",
                              ![t].out = Append(@, Msg("start", <<>>)),
                              ![t].last_ts = now,
                              ![t].buffer = <<>>,
                              ![t].last_sent = 0]
    /\ OnlyTask(t)

\* Line 262 raises: outside the try, the task ends with the exception.
StartSendFail(t) ==
    /\ Runs(t) /\ tasks[t].pc = "start_send"
    /\ tasks' = [tasks EXCEPT ![t].pc = "done"]
    /\ OnlyTask(t)

\* Line 271, in the thread: container.logs(since=last_ts) reads the log.
ReadLogs(t) ==
    /\ Runs(t) /\ tasks[t].pc = "read"
    /\ tasks' = [tasks EXCEPT ![t].pc = "read_done", ![t].raw = logs(tasks[t].last_ts)]
    /\ OnlyTask(t)

\* Line 271 raises; lines 272-273 up to the send of the error notice.
ReadFail(t) ==
    /\ Runs(t) /\ tasks[t].pc = "read"
    /\ tasks' = [tasks EXCEPT ![t].pc = "err_send"]
    /\ OnlyTask(t)

\* The coroutine resumes with the read's result: lines 276-292 up to the
\* first chunk's send (288) or, without a flush, the sleep (292).
PollResume(t) ==
    /\ Runs(t) /\ tasks[t].pc = "read_done"
    /\ LET new == NewLines(tasks[t].raw)
           buffer == tasks[t].buffer \o new
           base == [tasks[t] EXCEPT !.last_ts = now, !.buffer = buffer, !.raw = <<>>,
                                    !.fetched = @ \o new]
       IN  IF ShouldFlush(buffer, tasks[t].last_sent, now)
           THEN tasks' = [tasks EXCEPT ![t] =
                    [base EXCEPT !.pc = "flush_send",
                                 !.pending = split_long_message(join(buffer), MAX_MESSAGE_CHUNK),
                                 !.flushes = Append(@, <<tasks[t].last_sent, now>>)]]
           ELSE tasks' = [tasks EXCEPT ![t] =
                    [base EXCEPT !.pc = "sleep", !.wake = now + LOG_POLL_INTERVAL]]
    /\ OnlyTask(t)

\* Line 288 returns: the next chunk's send, or lines 289-292 after the last.
FlushSendOk(t) ==
    /\ Runs(t) /\ tasks[t].pc = "flush_send"
    /\ LET rest == Tail(tasks[t].pending)
           sent == [tasks[t] EXCEPT !.out = Append(@, Msg("log", Head(tasks[t].pending))),
                                    !.pending = rest]
       IN  IF rest # <<>>
           THEN tasks' = [tasks EXCEPT ![t] = sent]
           ELSE tasks' = [tasks EXCEPT ![t] =
                    [sent EXCEPT !.pc = "sleep", !.buffer = <<>>, !.last_sent = now,
                                 !.wake = now + LOG_POLL_INTERVAL]]
    /\ OnlyTask(t)

\* Line 288 raises: caught at line 297, up to the send at line 299.
FlushSendFail(t) ==
    /\ Runs(t) /\ tasks[t].pc = "flush_send"
    /\ tasks' = [tasks EXCEPT ![t].pc = "term_send", ![t].pending = <<>>,
                              ![t].sendFailed = TRUE]
    /\ OnlyTask(t)

\* Line 292 returns after LOG_POLL_INTERVAL; line 271 starts the next read.
SleepDone(t) ==
    /\ Runs(t) /\ tasks[t].pc = "sleep"
    /\ now >= tasks[t].wake
    /\ tasks' = [tasks EXCEPT ![t].pc = "read"]
    /\ OnlyTask(t)

\* An error notice after which the loop goes on to its sleep (no break).
ErrSendOkNoBreak(t) ==
    /\ Runs(t) /\ tasks[t].pc = "err_send"
    /\ tasks' = [tasks EXCEPT ![t].pc = "sleep", ![t].wake = now + LOG_POLL_INTERVAL,
                              ![t].out = Append(@, Msg("read_error", <<>>))]
    /\ OnlyTask(t)

\* Line 273 returns; break (274) leaves the loop and the coroutine returns.
ErrSendOk(t) ==
    /\ Runs(t) /\ tasks[t].pc = "err_send"
    /\ tasks' = [tasks EXCEPT ![t].pc = "done", ![t].out = Append(@, Msg("read_error", <<>>))]
    /\ OnlyTask(t)

\* Line 273 raises: caught at line 297, up to the send at line 299.
ErrSendFail(t) ==
    /\ Runs(t) /\ tasks[t].pc = "err_send"
    /\ tasks' = [tasks EXCEPT ![t].pc = "term_send"]
    /\ OnlyTask(t)

\* Line 295 returns or raises; either way the task ends (296).
StopSendEnd(t, ok) ==
    /\ Runs(t) /\ tasks[t].pc = "stop_send"
    /\ tasks' = [tasks EXCEPT ![t].pc = "done",
                              ![t].out = IF ok THEN Append(@, Msg("stopped", <<>>)) ELSE @]
    /\ OnlyTask(t)

\* Line 299 returns or raises; either way the task ends.
TermSendEnd(t, ok) ==
    /\ Runs(t) /\ tasks[t].pc = "term_send"
    /\ tasks' = [tasks EXCEPT ![t].pc = "done",
                              ![t].out = IF ok THEN Append(@, Msg("terminated", <<>>)) ELSE @]
    /\ OnlyTask(t)

\* A CancelledError that is swallowed inside the loop, which then goes on.
AfterCancelGoesOn(pc) ==
    IF pc \in {"read", "read_done", "flush_send", "sleep"} THEN "read"
    ELSE IF pc = "err_send" THEN "stop_send" ELSE "done"

\* The pc a CancelledError raised at the await of pc leads to: inside the
\* try (268-292) the handler at 293-295 sends the stop notice; at any other
\* await the task ends.
AfterCancel(pc) ==
    IF pc \in {"read", "read_done", "flush_send", "sleep", "err_send"}
    THEN "stop_send" ELSE "done"

\* The resumption of a task after task.cancel(): CancelledError is raised
\* at the await the coroutine is suspended at.
Cancelled(t) ==
    /\ tasks[t].cancel /\ tasks[t].pc \notin {"none", "done"}
    /\ tasks' = [tasks EXCEPT ![t].cancel = FALSE,
                              ![t].pc = AfterCancel(tasks[t].pc),
                              ![t].raw = <<>>,
                              ![t].pending = <<>>,
                              ![t].stopAt = tasks[t].pc]
    /\ OnlyTask(t)

\* A cancel() that requests nothing.
cancelNothing(tk, t) == tk

\* task.cancel()
cancel(tk, t) == [tk EXCEPT ![t].cancel = TRUE]

----------------------------------------------------------------------------
(* The handlers.  main() builds the application without concurrent         *)
(* updates, so one update is handled at a time; tasks run at the handler's *)
(* awaits.  handler.pc names the await the handler is suspended at:        *)
(* "reply" (a last message, after which the handler returns), "answer"     *)
(* (409), "find" (311/436), "stopping_send" (322/448), "stopping_sleep"    *)
(* (324/449), "stop_send" (341), "stop_sleep" (343).                       *)

OnlyHandler == UNCHANGED <<now, log, allowed, active_streams, tasks>> /\ UNCHANGED splitVars

\* task.cancel() schedules the task's next step at once, so the cancelled
\* task has taken it before the cancelling handler resumes from an await.
Resumes(pc) == handler.pc = pc /\ \A t \in TaskIds : ~tasks[t].cancel

Request(kind, u, c, ident) ==
    [pc |-> "idle", kind |-> kind, user |-> u, chat |-> c, ident |-> ident, msg |-> ""]

\* The handler's last await: a message to the requester, then it returns.
Reply(kind, u, msg) ==
    [pc |-> "reply", kind |-> kind, user |-> u, chat |-> 0, ident |-> "", msg |-> msg]

\* cmd_stream, lines 302-311: up to the reply that ends it or find_container.
cmd_stream(u, c, args) ==
    /\ handler.pc = "idle"
    /\ handler' =
         IF ~authorized(u) THEN Reply("cmd_stream", u, "denied")
         ELSE IF args = NoArg THEN Reply("cmd_stream", u, "usage")
         ELSE [Request("cmd_stream", u, c, args) EXCEPT !.pc = "find"]
    /\ OnlyHandler

\* callback_query_handler, lines 407-409: up to query.answer().
callback_query_handler(u, c, action, ident) ==
    /\ handler.pc = "idle"
    /\ handler' = [Request(action, u, c, ident) EXCEPT !.pc = "answer"]
    /\ OnlyHandler

\* Lines 410-436 and 487-488: after query.answer(), up to the reply that
\* ends the handler or find_container.  The "logs:" and "status:" buttons
\* touch no stream; they are the action "other".
CallbackAnswered ==
    /\ handler.pc = "answer"
    /\ handler' =
         IF ~authorized(handler.user) THEN Reply(handler.kind, handler.user, "denied")
         ELSE IF handler.kind = "stream:" THEN [handler EXCEPT !.pc = "find"]
         ELSE Reply(handler.kind, handler.user, "other")
    /\ OnlyHandler

\* Lines 326-327 and 450-451: create the task and register it.  The field
\* user records the requester whose handler created the task.
CreateTask(tk, c) == [tk EXCEPT ![NextTask] = [NewTaskRec(c) EXCEPT !.user = handler.user]]

\* find_container returns or raises NotFound; lines 312-327 (437-451) up to
\* the next await, or to the end when no stream has to be cancelled.
StreamFound ==
    /\ handler.pc = "find"
    /\ LET c == handler.chat
           existing == active_streams[c]
       IN  IF ~find_container(handler.ident)
           THEN /\ handler' = [Reply(handler.kind, handler.user, "not_found") EXCEPT !.chat = c]
                /\ UNCHANGED <<tasks, active_streams>>
           ELSE IF existing # NoTask /\ ~done(existing)
           THEN /\ tasks' = cancel(tasks, existing)
                /\ handler' = [handler EXCEPT !.pc = "stopping_send"]
                /\ UNCHANGED active_streams
           ELSE /\ tasks' = CreateTask(tasks, c)
                /\ active_streams' = [active_streams EXCEPT ![c] = NextTask]
                /\ handler' = IdleHandler
    /\ UNCHANGED <<now, log, allowed>> /\ UNCHANGED splitVars

\* Line 322 (448) returns: the handler sleeps 0.2 s (324/449).
StoppingSent ==
    /\ Resumes("stopping_send")
    /\ handler' = [handler EXCEPT !.pc = "stopping_sleep"]
    /\ OnlyHandler

\* Line 324 (449) returns: lines 326-327 (450-451).
StoppingSlept ==
    /\ Resumes("stopping_sleep")
    /\ tasks' = CreateTask(tasks, handler.chat)
    /\ active_streams' = [active_streams EXCEPT ![handler.chat] = NextTask]
    /\ handler' = IdleHandler
    /\ UNCHANGED <<now, log, allowed>> /\ UNCHANGED splitVars

\* cmd_stop, lines 330-344: up to its first await, or to the end when the
\* registered task is done already.
cmd_stop(u, c) ==
    /\ handler.pc = "idle"
    /\ LET r == Request("cmd_stop", u, c, "")
           existing == active_streams[c]
       IN  IF ~authorized(u)
           THEN /\ handler' = Reply("cmd_stop", u, "denied")
                /\ UNCHANGED <<tasks, active_streams>>
           ELSE IF existing = NoTask
           THEN /\ handler' = Reply("cmd_stop", u, "no_active")
                /\ UNCHANGED <<tasks, active_streams>>
           ELSE IF ~done(existing)
           THEN /\ tasks' = cancel(tasks, existing)
                /\ handler' = [r EXCEPT !.pc = "stop_send"]
                /\ UNCHANGED active_streams
           ELSE /\ active_streams' = [active_streams EXCEPT ![c] = NoTask]
                /\ handler' = IdleHandler
                /\ UNCHANGED tasks
    /\ UNCHANGED <<now, log, allowed>> /\ UNCHANGED splitVars

\* Line 341 returns: the handler sleeps 0.2 s (343).
StopSent ==
    /\ Resumes("stop_send")
    /\ handler' = [handler EXCEPT !.pc = "stop_sleep"]
    /\ OnlyHandler

\* Line 343 returns: line 344 removes the entry.
StopSlept ==
    /\ Resumes("stop_sleep")
    /\ active_streams' = [active_streams EXCEPT ![handler.chat] = NoTask]
    /\ handler' = IdleHandler
    /\ UNCHANGED <<now, log, allowed, tasks>> /\ UNCHANGED splitVars

\* The last message of a handler is sent (or its send raises): it returns.
Replied ==
    /\ handler.pc = "reply"
    /\ handler' = IdleHandler
    /\ OnlyHandler

\* The send at line 322, 341 or 448 raises: the handler ends there.
HandlerSendFail ==
    /\ Resumes("stopping_send") \/ Resumes("stop_send")
    /\ handler' = IdleHandler
    /\ OnlyHandler

----------------------------------------------------------------------------
(* The environment: the clock and the container writing its log. *)

Tick(maxTime) ==
    /\ now < maxTime
    /\ now' = now + 1
    /\ UNCHANGED <<log, allowed, active_streams, tasks, handler>> /\ UNCHANGED splitVars

\* The container writes one line, stamped with the current second.
Produce(maxLines) ==
    /\ Len(log) < maxLines
    /\ log' = Append(log, now)
    /\ UNCHANGED <<now, allowed, active_streams, tasks, handler>> /\ UNCHANGED splitVars

----------------------------------------------------------------------------
(* Specifications. *)

StreamInit ==
    /\ now = StartTime
    /\ log = <<>>
    /\ allowed \in {{}, {1}}
    /\ active_streams = [c \in Chats |-> NoTask]
    /\ tasks = [t \in TaskIds |-> NoTaskRec]
    /\ handler = IdleHandler

Init ==
    /\ StreamInit
    /\ text = <<>> /\ max_chunk = MAX_MESSAGE_CHUNK /\ chunks = <<>> /\ split_pc = "done"

Worker(t) ==
    \/ TaskStart(t)
    \/ StartSendOk(t)
    \/ StartSendFail(t)
    \/ ReadLogs(t)
    \/ ReadFail(t)
    \/ PollResume(t)
    \/ FlushSendOk(t)
    \/ FlushSendFail(t)
    \/ SleepDone(t)
    \/ ErrSendOk(t)
    \/ ErrSendFail(t)
    \/ \E ok \in BOOLEAN : StopSendEnd(t, ok)
    \/ \E ok \in BOOLEAN : TermSendEnd(t, ok)
    \/ Cancelled(t)

\* A start request is taken only while a task id is left for its task.
Handlers ==
    \/ \E u \in Users, c \in Chats, args \in Idents \cup {NoArg} :
          CanCreate /\ cmd_stream(u, c, args)
    \/ \E u \in Users, c \in Chats, ident \in Idents :
          CanCreate /\ callback_query_handler(u, c, "stream:", ident)
    \/ \E u \in Users, c \in Chats : CanCreate /\ callback_query_handler(u, c, "other", "")
    \/ CallbackAnswered
    \/ StreamFound
    \/ StoppingSent
    \/ StoppingSlept
    \/ \E u \in Users, c \in Chats : cmd_stop(u, c)
    \/ StopSent
    \/ StopSlept
    \/ Replied
    \/ HandlerSendFail

Next ==
    \/ \E t \in TaskIds : Worker(t)
    \/ Handlers
    \/ Tick(MaxTime)
    \/ Produce(MaxLogLines)

Spec == Init /\ [][Next]_vars

\* One chat's stream: the authorized user starts, replaces and stops the
\* stream of chat 1 by command.
SessionInit ==
    /\ StreamInit /\ allowed = {1}
    /\ text = <<>> /\ max_chunk = MAX_MESSAGE_CHUNK /\ chunks = <<>> /\ split_pc = "done"

SessionHandlers ==
    \/ CanCreate /\ cmd_stream(1, 1, "web")
    \/ StreamFound
    \/ StoppingSent
    \/ StoppingSlept
    \/ cmd_stop(1, 1)
    \/ StopSent
    \/ StopSlept
    \/ Replied
    \/ HandlerSendFail

SessionNext ==
    \/ \E t \in TaskIds : Worker(t)
    \/ SessionHandlers
    \/ Tick(SessionMaxTime)
    \/ Produce(SessionLogLines)

SessionSpec == SessionInit /\ [][SessionNext]_vars

\* split_long_message alone, on every text and max_chunk within the bounds.
SplitInit ==
    /\ now = StartTime /\ log = <<>> /\ allowed = {1}
    /\ active_streams = [c \in Chats |-> NoTask]
    /\ tasks = [t \in TaskIds |-> NoTaskRec]
    /\ handler = IdleHandler
    /\ text \in Texts
    /\ max_chunk \in 1..MaxChunkArg
    /\ chunks = <<>>
    /\ split_pc = "call"

SplitNext == SplitCall

SplitSpec == SplitInit /\ [][SplitNext]_vars

----------------------------------------------------------------------------
(* Properties. *)

TasksOf(c) == {t \in TaskIds : tasks[t].pc # "none" /\ tasks[t].chat = c}

\* The worker has not been cancelled and has not left its loop for good.
Polling(t) ==
    /\ tasks[t].pc \in {"created", "start_send"} \cup LoopPcs
    /\ ~tasks[t].cancel

\* The lines of the log messages the sink accepted from task t, in order.
RECURSIVE LinesOfMsgs(_)
LinesOfMsgs(msgs) ==
    IF msgs = <<>> THEN <<>>
    ELSE (IF Head(msgs).kind = "log" THEN splitlines(Head(msgs).text) ELSE <<>>)
         \o LinesOfMsgs(Tail(msgs))

DeliveredLines(t) == LinesOfMsgs(tasks[t].out)

\* No poll of task t returned a line an earlier poll had returned.
NoRefetch(t) ==
    \A i, j \in DOMAIN tasks[t].fetched : i < j => tasks[t].fetched[i] # tasks[t].fetched[j]

LogMsgs(t) == {i \in DOMAIN tasks[t].out : tasks[t].out[i].kind = "log"}

\* C1: in every reachable state each chat has at most one stream worker
\* that is neither cancelled nor finished; a replaced or stopped worker is
\* never in its poll/flush loop alongside a newer one.
C1_AtMostOnePolling ==
    \A c \in Chats : Cardinality({t \in TasksOf(c) : Polling(t)}) <= 1

\* C1 witness: a chat whose replaced worker has not finished yet (it is
\* sending its stop notice) while the newer worker is in its loop.
C1_Witness ==
    \E t1, t2 \in TaskIds :
        /\ t1 < t2 /\ tasks[t1].chat = tasks[t2].chat
        /\ tasks[t1].pc = "stop_send"
        /\ InLoop(t2)

\* C2: when a stream is started for a chat that has a running stream, the
\* prior worker is done before the new worker is created: no task of a chat
\* exists while an earlier task of that chat is not done.
C2_PriorDoneBeforeNew ==
    \A t1, t2 \in TaskIds :
        (t1 < t2 /\ tasks[t2].pc # "none" /\ tasks[t1].chat = tasks[t2].chat)
            => done(t1)

\* C3: when cmd_stop for a chat with a running stream returns, that stream's
\* worker has terminated and the chat's entry is removed from active_streams.
C3_StopWaitsForWorker ==
    [][(handler.pc = "stop_sleep" /\ handler'.pc = "idle")
          => /\ tasks'[active_streams[handler.chat]].pc = "done"
             /\ active_streams'[handler.chat] = NoTask]_vars

\* C4: whenever a worker terminates on its own (not by a cancel), its entry
\* is removed: active_streams holds no entry whose task has finished.
C4_NoFinishedEntry ==
    \A c \in Chats :
        LET t == active_streams[c]
        IN  t # NoTask => ~(done(t) /\ tasks[t].stopAt = "")

\* C5: within one session, a flush begins at least STREAM_RATE_LIMIT seconds
\* after the previous flush ended (stated for the sessions in which every
\* line was fetched once, the least the claim says).
C5_FlushesRateLimited ==
    \A t \in TaskIds : \A i \in DOMAIN tasks[t].flushes :
        (i > 1 /\ NoRefetch(t))
            => tasks[t].flushes[i][2] - tasks[t].flushes[i][1] >= STREAM_RATE_LIMIT

\* C6: every chunk split_long_message returns has length at most max_chunk.
C6_ChunksWithinCap ==
    split_pc = "done" => \A i \in DOMAIN chunks : Len(chunks[i]) <= max_chunk

\* C7: a worker stopped while it waits between polls has delivered every
\* line it put into its buffer by the time it is done (stated for the
\* sessions in which every line was fetched once).
C7_StopFlushesBuffer ==
    \A t \in TaskIds :
        (done(t) /\ tasks[t].stopAt \in {"sleep", "read"} /\ NoRefetch(t))
            => DeliveredLines(t) = tasks[t].fetched

\* C8: when the send of a chunk raises, the worker stays in its poll loop.
C8_SendFailureContinues ==
    [][\A t \in TaskIds :
          (tasks[t].pc = "flush_send" /\ ~tasks[t].sendFailed /\ tasks'[t].sendFailed)
              => tasks'[t].pc \in LoopPcs]_vars

\* C9: within one session the lines are delivered in the order the source
\* produced them: no line is sent after a line the container wrote later.
C9_DeliveredInSourceOrder ==
    \A t \in TaskIds :
        LET d == DeliveredLines(t)
        IN  \A i, j \in DOMAIN d : i < j => d[i][1] <= d[j][1]

\* C10: a session never sends a log batch from an empty buffer: every log
\* message carries a line, and while the container has written nothing no
\* flush begins and no log message is sent.
C10_NoEmptyFlush ==
    \A t \in TaskIds :
        /\ \A i \in LogMsgs(t) : tasks[t].out[i].text # <<>>
        /\ log = <<>> => (LogMsgs(t) = {} /\ tasks[t].flushes = <<>>)

\* C10 witness: the container is idle, the worker has polled
\* STREAM_RATE_LIMIT or more seconds after its last flush time (last_sent,
\* still 0) and went to sleep without sending.
C10_Witness ==
    \E t \in TaskIds :
        /\ log = <<>>
        /\ tasks[t].pc = "sleep" /\ tasks[t].buffer = <<>>
        /\ tasks[t].last_ts > StartTime
        /\ tasks[t].last_ts - tasks[t].last_sent >= STREAM_RATE_LIMIT

\* The handler is serving a start request whose identifier names no container.
Unresolved(h) ==
    \/ h.pc \in {"answer", "find"} /\ h.kind \in {"cmd_stream", "stream:"} /\ h.ident \notin Containers
    \/ h.msg = "not_found"

\* C11: no step of a start request whose identifier cannot be resolved
\* changes a task or active_streams, and when find_container has raised
\* NotFound the handler's reply is "not found".
C11_NotFoundChangesNothing ==
    [][(handler' # handler /\ (Unresolved(handler) \/ Unresolved(handler')))
          => /\ UNCHANGED <<tasks, active_streams>>
             /\ handler.pc = "find" => handler'.msg = "not_found"]_vars

\* C11 witness: the requester of a chat whose stream is running is being
\* told that the container was not found.
C11_Witness ==
    /\ handler.msg = "not_found"
    /\ active_streams[handler.chat] # NoTask
    /\ InLoop(active_streams[handler.chat])

\* C12: a handler step of a request whose requester is not in ALLOWED_USERS
\* (every requester when ALLOWED_USERS is empty) changes no task and no
\* entry of active_streams, and such a request never reaches the code that
\* looks up, cancels, creates or removes a stream.
C12_UnauthorizedChangesNothing ==
    [][/\ (/\ handler' # handler
           /\ (IF handler.pc = "idle" THEN handler'.user ELSE handler.user) \notin allowed)
          => UNCHANGED <<tasks, active_streams>>
       /\ handler.pc \in {"find", "stopping_send", "stopping_sleep", "stop_send", "stop_sleep"}
          => handler.user \in allowed]_vars

\* C12 witness: a requester outside ALLOWED_USERS has been denied while a
\* stream is running.
C12_Witness ==
    /\ handler.msg = "denied"
    /\ handler.user \notin allowed
    /\ \E t \in TaskIds : InLoop(t)

\* The running workers that requester u started.
StartedBy(u) == {t \in TaskIds : tasks[t].user = u /\ Polling(t)}

\* C13: the running stream workers started by one requester never exceed
\* one, whatever chats the requester started them from.
C13_OneWorkerPerRequester ==
    \A u \in Users : Cardinality(StartedBy(u)) <= 1

\* C13 as the registry keeps it (active_streams is keyed by chat id): the
\* running workers one requester started in one chat never exceed one.
C13_OneWorkerPerRequesterAndChat ==
    \A u \in Users, c \in Chats :
        Cardinality({t \in StartedBy(u) : tasks[t].chat = c}) <= 1

\* C13 witness: one requester has started streams from two chats and both
\* workers are in their polling loops.
C13_Witness ==
    \E t1, t2 \in TaskIds :
        /\ tasks[t1].user = tasks[t2].user
        /\ tasks[t1].chat # tasks[t2].chat
        /\ InLoop(t1) /\ InLoop(t2)
        /\ ~tasks[t1].cancel /\ ~tasks[t2].cancel

\* C14: within one session no log line is delivered twice: the lines of the
\* log messages the sink accepted from a worker are pairwise different, and
\* no poll returned a line an earlier poll of the session had returned.
C14_NoLineDeliveredTwice ==
    \A t \in TaskIds :
        /\ NoRefetch(t)
        /\ \A i, j \in DOMAIN DeliveredLines(t) :
               i < j => DeliveredLines(t)[i] # DeliveredLines(t)[j]

\* Some poll of task t returned line i of the log.
Fetched(t, i) == \E k \in DOMAIN tasks[t].fetched : tasks[t].fetched[k] = <<i>>

\* C15: no log line is skipped.  A line written after a line the session
\* has fetched was written after the session's initial cursor, and once its
\* second lies before the cursor last_ts no later poll returns it: every
\* such line has been returned by a poll already.
C15_NoLineSkipped ==
    \A t \in TaskIds : \A i, j \in DOMAIN log :
        (j < i /\ Fetched(t, j) /\ log[i] < tasks[t].last_ts) => Fetched(t, i)

\* The lines of a sequence of chunks, in order.
RECURSIVE LinesOfChunks(_)
LinesOfChunks(cs) ==
    IF cs = <<>> THEN <<>> ELSE splitlines(Head(cs)) \o LinesOfChunks(Tail(cs))

\* Sequence s ends with sequence e.
EndsWith(s, e) ==
    Len(e) <= Len(s) /\ SubSeq(s, Len(s) - Len(e) + 1, Len(s)) = e

\* C16: a flush check that finds the buffer non-empty with at least
\* STREAM_RATE_LIMIT elapsed since the last flush starts a flush whose
\* chunks hold the buffered lines in push order, and when the last chunk of
\* a flush has been sent the buffered lines are the last lines delivered
\* and the buffer is empty.  So a worker goes to sleep with buffered lines
\* only while less than STREAM_RATE_LIMIT has elapsed since its last flush.
C16_DueBufferIsFlushed ==
    [][\A t \in TaskIds :
        /\ (/\ tasks[t].pc = "read_done" /\ tasks'[t].pc \in {"flush_send", "sleep"}
            /\ tasks'[t].buffer # <<>>
            /\ now - tasks[t].last_sent >= STREAM_RATE_LIMIT)
           => /\ tasks'[t].pc = "flush_send"
              /\ LinesOfChunks(tasks'[t].pending) = tasks'[t].buffer
              /\ tasks'[t].buffer = tasks[t].buffer \o NewLines(tasks[t].raw)
        /\ (tasks[t].pc = "flush_send" /\ tasks'[t].pc = "sleep")
           => /\ tasks'[t].buffer = <<>>
              /\ EndsWith(LinesOfMsgs(tasks'[t].out), tasks[t].buffer)]_vars

\* C16 witness: a second flush, made STREAM_RATE_LIMIT or more after the
\* first one with a single buffered line, has been sent and the worker
\* sleeps with an empty buffer.
C16_Witness ==
    \E t \in TaskIds :
        /\ tasks[t].pc = "sleep" /\ tasks[t].buffer = <<>>
        /\ Len(tasks[t].flushes) = 2
        /\ tasks[t].flushes[2][1] > 0
        /\ tasks[t].flushes[2][2] - tasks[t].flushes[2][1] >= STREAM_RATE_LIMIT
        /\ tasks[t].last_sent >= tasks[t].flushes[2][2]
        /\ Len(DeliveredLines(t)) = 2
        /\ ~tasks[t].sendFailed

\* The fewest chunks of whole consecutive lines, each chunk's lines joined
\* by newlines to at most mc characters, that hold lines[i..]; open is the
\* length of the chunk being filled, -1 when there is none.  Filling each
\* chunk as far as it goes is optimal for consecutive groups.
RECURSIVE FewestChunks(_, _, _, _)
FewestChunks(lines, i, mc, open) ==
    IF i > Len(lines) THEN (IF open >= 0 THEN 1 ELSE 0)
    ELSE IF open >= 0 /\ open + 1 + Len(lines[i]) <= mc
         THEN FewestChunks(lines, i + 1, mc, open + 1 + Len(lines[i]))
         ELSE (IF open >= 0 THEN 1 ELSE 0) + FewestChunks(lines, i + 1, mc, Len(lines[i]))

\* The text is its lines joined by "\n": no "\r", no final newline.
PlainText(t) == t = join(splitlines(t))

\* C17: for a text whose lines each fit in max_chunk, split_long_message
\* returns no more chunks than the fewest that whole consecutive lines can
\* be packed into under the cap (stated for the plain texts without empty
\* lines).
C17_FewestChunks ==
    LET lines == splitlines(text)
    IN  (/\ split_pc = "done"
         /\ PlainText(text) /\ lines # <<>>
         /\ \A i \in DOMAIN lines : lines[i] # <<>> /\ Len(lines[i]) <= max_chunk)
        => Len(chunks) <= FewestChunks(lines, 1, max_chunk, -1)

\* C18: the lines of the returned chunks, concatenated in chunk order, are
\* the lines of the input text (stated for the plain texts).
C18_ChunksKeepLines ==
    (split_pc = "done" /\ PlainText(text)) => LinesOfChunks(chunks) = splitlines(text)

\* The places of a worker that has left its poll loop for good.
LeftLoop == {"err_send", "term_send", "stop_send", "done"}

\* The positions of the error notices in a worker's accepted messages.
ErrorNotices(out) == {i \in DOMAIN out : out[i].kind \in {"read_error", "terminated"}}

\* C19: a worker whose poll has failed never returns to its loop (no
\* further poll, flush or sleep); when the send of the error notice
\* returns, the worker is done and that notice is the one error notice it
\* has sent and its last message; no worker ever sends a second one.
C19_PollFailureEndsSession ==
    [][\A t \in TaskIds :
        /\ tasks[t].pc \in LeftLoop => tasks'[t].pc \in LeftLoop
        /\ (tasks[t].pc = "err_send" /\ tasks'[t].pc = "done")
           => /\ tasks'[t].out = Append(tasks[t].out, Msg("read_error", <<>>))
              /\ tasks'[t].fetched = tasks[t].fetched
        /\ ErrorNotices(tasks'[t].out) # {}
           => /\ tasks'[t].pc = "done"
              /\ ErrorNotices(tasks'[t].out) = {Len(tasks'[t].out)}]_vars

\* C19 witness: a worker that had fetched lines is done after a failed
\* poll, its last message the error notice.
C19_Witness ==
    \E t \in TaskIds :
        /\ done(t) /\ tasks[t].stopAt = ""
        /\ tasks[t].fetched # <<>>
        /\ tasks[t].out # <<>>
        /\ tasks[t].out[Len(tasks[t].out)].kind = "read_error"

\* C20: a worker that a stop or replace request has cancelled, or that has
\* taken the CancelledError, starts no poll and no send of log lines: its
\* only steps lead to the send of the stop notice and to its end, it
\* fetches nothing more, and the one message it may still add is the stop
\* notice, with which it is done.
C20_CancelledWorkerOnlyStops ==
    [][\A t \in TaskIds :
        (tasks[t].cancel \/ tasks[t].stopAt # "")
        => /\ tasks'[t].pc \in {tasks[t].pc, "stop_send", "done"}
           /\ tasks'[t].fetched = tasks[t].fetched
           /\ tasks'[t].buffer = tasks[t].buffer
           /\ tasks'[t].pending \in {tasks[t].pending, <<>>}
           /\ \/ tasks'[t].out = tasks[t].out
              \/ /\ tasks'[t].out = Append(tasks[t].out, Msg("stopped", <<>>))
                 /\ tasks[t].pc = "stop_send" /\ tasks'[t].pc = "done"]_vars

\* C20 witness: a worker cancelled during the send of a chunk is done, the
\* stop notice its last message.
C20_Witness ==
    \E t \in TaskIds :
        /\ done(t) /\ tasks[t].stopAt = "flush_send"
        /\ tasks[t].out[Len(tasks[t].out)].kind = "stopped"

====
